---- MODULE Spec2Model ----
(***************************************************************************)
(* Model of src/cloudformation/lambda_handler.py: one invocation of        *)
(* lambda_handler, from the inbound API-gateway event to the returned      *)
(* envelope or the escaping exception.  The customer store, the secrets    *)
(* service and the issue tracker are the environment: every call to them   *)
(* is a step whose outcome the environment chooses.                        *)
(***************************************************************************)
EXTENDS Integers, Sequences, FiniteSets, TLC

\* ------------------------------------------------------------------ bounds
MaxWeeks == 2        \* timelineInWeeks ranges over -MaxWeeks..MaxWeeks
FarWeeks == 500000   \* one timeline far beyond the calendar's last year
MaxIssues == 2       \* issues in one tracker search response

\* ------------------------------------------------------- python values
\* Every Python value is a tagged record, so that None, "None", {} and []
\* stay distinct.
NoneVal == [t |-> "none"]
Str(s) == [t |-> "str", v |-> s]
NumStr(cs) == [t |-> "numstr", chars |-> cs]
IntV(n) == [t |-> "int", n |-> n]
DecimalV(n) == [t |-> "decimal", n |-> n]
ListV(xs) == [t |-> "list", items |-> xs]
DictV(kv) == [t |-> "dict", kv |-> kv]
EmptyDict == DictV(<<>>)
EmptyList == ListV(<<>>)

NoExc == [t |-> "noexc"]
Exc(type, origin) == [t |-> "exc", type |-> type, origin |-> origin]
Ok(v) == [ok |-> TRUE, val |-> v]
Raise(e) == [ok |-> FALSE, exc |-> e]

\* dict.get(key, None) on a model dictionary (a sequence of key/value pairs)
DictHas(d, k) == \E i \in 1..Len(d.kv) : d.kv[i][1] = k
DictGet(d, k) ==
    IF DictHas(d, k)
    THEN d.kv[CHOOSE i \in 1..Len(d.kv) : d.kv[i][1] = k][2]
    ELSE NoneVal

\* d[k]: KeyError when the key is missing, TypeError when d is no dictionary
Subscript(d, k, origin) ==
    IF d.t # "dict" THEN Raise(Exc("TypeError", origin))
    ELSE IF DictHas(d, k) THEN Ok(DictGet(d, k))
    ELSE Raise(Exc("KeyError", origin))

RECURSIVE SubscriptPath(_, _, _)
SubscriptPath(d, ks, origin) ==
    IF ks = <<>> THEN Ok(d)
    ELSE LET r == Subscript(d, Head(ks), origin)
         IN  IF r.ok THEN SubscriptPath(r.val, Tail(ks), origin) ELSE r

\* Python truthiness of the values the handler tests
Truthy(v) ==
    CASE v.t = "none" -> FALSE
      [] v.t = "dict" -> Len(v.kv) > 0
      [] v.t = "list" -> Len(v.items) > 0
      [] v.t = "str" -> v.v # ""
      [] v.t = "numstr" -> Len(v.chars) > 0
      [] v.t = "int" -> v.n # 0
      [] OTHER -> TRUE

\* ------------------------------------------------------------- int(x)
DigitVal(c) ==
    CASE c = "0" -> 0 [] c = "1" -> 1 [] c = "2" -> 2 [] c = "3" -> 3
      [] c = "4" -> 4 [] c = "5" -> 5 [] c = "6" -> 6 [] c = "7" -> 7
      [] c = "8" -> 8 [] c = "9" -> 9 [] OTHER -> -1

RECURSIVE DigitsValue(_, _)
DigitsValue(cs, acc) ==
    IF cs = <<>> THEN acc
    ELSE DigitsValue(Tail(cs), acc * 10 + DigitVal(Head(cs)))

AllDigits(cs) == Len(cs) > 0 /\ \A i \in 1..Len(cs) : DigitVal(cs[i]) >= 0

\* int(): None -> TypeError, an int -> itself, a string -> its signed decimal
\* value or ValueError
PyInt(v) ==
    CASE v.t = "int" -> Ok(v.n)
      [] v.t = "numstr" ->
            IF AllDigits(v.chars) THEN Ok(DigitsValue(v.chars, 0))
            ELSE IF Len(v.chars) > 1 /\ Head(v.chars) \in {"-", "+"}
                    /\ AllDigits(Tail(v.chars))
                 THEN Ok((IF Head(v.chars) = "-" THEN -1 ELSE 1)
                         * DigitsValue(Tail(v.chars), 0))
                 ELSE Raise(Exc("ValueError", "router"))
      [] v.t = "str" -> Raise(Exc("ValueError", "router"))
      [] OTHER -> Raise(Exc("TypeError", "router"))

\* ------------------------------------------------------------- json
JNull == [t |-> "null"]
JString(pyStr) == [t |-> "string", s |-> pyStr]
JNumber(n) == [t |-> "number", n |-> n]
JArray(xs) == [t |-> "array", items |-> xs]
JObject(kv) == [t |-> "object", kv |-> kv]
JsonText(j) == [t |-> "jsontext", json |-> j]
BadText == [t |-> "badtext"]

\* f"Unrecognized api path: {api_path}"
FStr(prefix, arg) == [t |-> "fstr", prefix |-> prefix, arg |-> arg]

\* json.dumps raises TypeError on a value it has no encoding for (the store
\* client yields Decimal for numbers)
RECURSIVE Serializable(_)
Serializable(v) ==
    CASE v.t = "decimal" -> FALSE
      [] v.t = "list" -> \A i \in 1..Len(v.items) : Serializable(v.items[i])
      [] v.t = "dict" -> \A i \in 1..Len(v.kv) : Serializable(v.kv[i][2])
      [] OTHER -> TRUE

RECURSIVE ToJson(_)
ToJson(v) ==
    CASE v.t = "none" -> JNull
      [] v.t = "int" -> JNumber(v.n)
      [] v.t = "list" -> JArray([i \in 1..Len(v.items) |-> ToJson(v.items[i])])
      [] v.t = "dict" ->
            JObject([i \in 1..Len(v.kv) |-> <<v.kv[i][1], ToJson(v.kv[i][2])>>])
      [] OTHER -> JString(v)

JsonDumps(v) ==
    IF Serializable(v) THEN Ok(JsonText(ToJson(v)))
    ELSE Raise(Exc("TypeError", "router"))

RECURSIVE FromJson(_)
FromJson(j) ==
    CASE j.t = "null" -> NoneVal
      [] j.t = "number" -> IntV(j.n)
      [] j.t = "string" -> j.s
      [] j.t = "array" -> ListV([i \in 1..Len(j.items) |-> FromJson(j.items[i])])
      [] OTHER -> DictV([i \in 1..Len(j.kv) |-> <<j.kv[i][1], FromJson(j.kv[i][2])>>])

JsonLoads(text) ==
    IF text.t = "jsontext" THEN Ok(FromJson(text.json))
    ELSE Raise(Exc("JSONDecodeError", "router"))

\* ------------------------------------------------------------- dates
\* datetime's proleptic Gregorian calendar: ordinal 1 is 0001-01-01.
MAXORDINAL == 3652059          \* date.max, 9999-12-31
MAXDELTADAYS == 999999999      \* timedelta.max.days

IsLeap(y) == y % 4 = 0 /\ (y % 100 # 0 \/ y % 400 = 0)

DaysInMonth(y, m) ==
    CASE m = 2 -> IF IsLeap(y) THEN 29 ELSE 28
      [] m \in {4, 6, 9, 11} -> 30
      [] OTHER -> 31

DaysBeforeYear(y) ==
    (y - 1) * 365 + (y - 1) \div 4 - (y - 1) \div 100 + (y - 1) \div 400

RECURSIVE DaysBeforeMonth(_, _)
DaysBeforeMonth(y, m) ==
    IF m = 1 THEN 0 ELSE DaysBeforeMonth(y, m - 1) + DaysInMonth(y, m - 1)

Ymd2Ord(d) == DaysBeforeYear(d.y) + DaysBeforeMonth(d.y, d.m) + d.d

\* the year holding ordinal n, by 400/100/4/1-year cycles
OrdYear(n) ==
    LET n0 == n - 1
        n400 == n0 \div 146097
        r400 == n0 % 146097
        n100 == r400 \div 36524
        r100 == r400 % 36524
        n4 == r100 \div 1461
        r4 == r100 % 1461
        n1 == r4 \div 365
    IN  IF n1 = 4 \/ n100 = 4
        THEN n400 * 400 + n100 * 100 + n4 * 4 + n1
        ELSE n400 * 400 + n100 * 100 + n4 * 4 + n1 + 1

Ord2Ymd(n) ==
    LET y == OrdYear(n)
        rest == n - DaysBeforeYear(y)
        m == CHOOSE k \in 1..12 :
                /\ DaysBeforeMonth(y, k) < rest
                /\ rest <= DaysBeforeMonth(y, k) + DaysInMonth(y, k)
    IN  [y |-> y, m |-> m, d |-> rest - DaysBeforeMonth(y, m)]

\* zero-padded decimal digits, as %Y (4), %m and %d (2) print them
DigitChar(k) ==
    CASE k = 0 -> "0" [] k = 1 -> "1" [] k = 2 -> "2" [] k = 3 -> "3"
      [] k = 4 -> "4" [] k = 5 -> "5" [] k = 6 -> "6" [] k = 7 -> "7"
      [] k = 8 -> "8" [] OTHER -> "9"

RECURSIVE Pad(_, _)
Pad(n, width) ==
    IF width = 0 THEN <<>>
    ELSE Append(Pad(n \div 10, width - 1), DigitChar(n % 10))

\* strftime("%Y-%m-%d")
Strftime(d) == NumStr(Pad(d.y, 4) \o <<"-">> \o Pad(d.m, 2) \o <<"-">> \o Pad(d.d, 2))

\* datetime.now() + datetime.timedelta(weeks=w): the timedelta constructor
\* and the addition both raise OverflowError outside their ranges
DatetimePlusWeeks(now, w) ==
    LET days == w * 7
        ord == Ymd2Ord(now.date) + days
    IN  IF days > MAXDELTADAYS \/ days < -MAXDELTADAYS
        THEN Raise(Exc("OverflowError", "update_jira_issue"))
        ELSE IF ord < 1 \/ ord > MAXORDINAL
        THEN Raise(Exc("OverflowError", "update_jira_issue"))
        ELSE Ok([date |-> Ord2Ymd(ord), secs |-> now.secs])

\* lines 146-149: the due date and the PUT payload
due_date_days(now, w) ==
    LET ord == Ymd2Ord(now.date) + w
    IN  IF ord < 1 \/ ord > MAXORDINAL
        THEN Raise(Exc("OverflowError", "update_jira_issue"))
        ELSE Ok(Strftime(Ord2Ymd(ord)))

due_date(now, w) ==
    LET r == DatetimePlusWeeks(now, w)
    IN  IF r.ok THEN Ok(Strftime(r.val.date)) ELSE r

update_payload(due) == JsonText(JObject(<< <<"fields", JObject(<< <<"duedate", JString(due)>> >>)>> >>))

\* ------------------------------------------------------- customer store
\* The two tables are read-only for this program; their content is fixed.
CustomerIds == {"C1", "C2", "C3", "C4"}

customer_table ==
    [c \in CustomerIds |->
        CASE c = "C1" -> DictV(<< <<"customer_id", Str("C1")>>,
                                  <<"overview", Str("overview of C1")>>,
                                  <<"meetingType", Str("video")>>,
                                  <<"timeofDay", Str("morning")>>,
                                  <<"dayOfWeek", Str("Tuesday")>> >>)
          [] c = "C3" -> DictV(<< <<"customer_id", Str("C3")>>,
                                  <<"meetingType", Str("phone")>> >>)
          [] c = "C4" -> DictV(<< <<"customer_id", Str("C4")>>,
                                  <<"overview", DictV(<< <<"employees", DecimalV(120)>> >>)>>,
                                  <<"dayOfWeek", Str("Friday")>> >>)
          [] OTHER -> NoneVal]

Interaction(c, date, notes) ==
    DictV(<< <<"customer_id", Str(c)>>, <<"date", Str(date)>>, <<"notes", Str(notes)>> >>)

\* each partition in ascending sort-key (date) order, as the store keeps it
interaction_table ==
    [c \in CustomerIds |->
        CASE c = "C1" -> << Interaction("C1", "2024-01-05", "kickoff"),
                            Interaction("C1", "2024-02-11", "demo"),
                            Interaction("C1", "2024-03-02", "renewal") >>
          [] c = "C3" -> << Interaction("C3", "2024-02-20", "intro") >>
          [] OTHER -> <<>>]

StoreErrors == {"ClientError", "EndpointConnectionError"}

Reverse(xs) == [i \in 1..Len(xs) |-> xs[Len(xs) + 1 - i]]

RECURSIVE Project(_, _)
Project(kv, names) ==
    IF kv = <<>> THEN <<>>
    ELSE IF \E i \in 1..Len(names) : names[i] = Head(kv)[1]
         THEN <<Head(kv)>> \o Project(Tail(kv), names)
         ELSE Project(Tail(kv), names)

\* Table.get_item(Key, ProjectionExpression): the response carries "Item"
\* only when a record exists
StoreGetItem(key, names) ==
    IF key.t # "str" \/ key.v \notin CustomerIds \/ customer_table[key.v] = NoneVal
    THEN DictV(<<>>)
    ELSE DictV(<< <<"Item", DictV(Project(customer_table[key.v].kv, names))>> >>)

\* Table.query(ScanIndexForward=False, Limit, KeyConditionExpression,
\* ProjectionExpression)
StoreQuery(key, limit, names) ==
    LET part == IF key.v \in CustomerIds THEN Reverse(interaction_table[key.v]) ELSE <<>>
        n == IF limit < Len(part) THEN limit ELSE Len(part)
    IN  DictV(<< <<"Items", ListV([i \in 1..n |-> DictV(Project(part[i].kv, names))])>> >>)

\* a request the store rejects before looking anything up
StoreRejectsGet(key) == key.t # "str"
StoreRejectsQuery(key, limit) == key.t # "str" \/ limit < 1

\* ------------------------------------------------------- CustomerService
\* except Exception as e: logger.error(...); raise
CustomerServiceSwallow(e) == Ok(EmptyDict)

CustomerServiceReraise(e) == Raise(e)

\* lines 43-52: storeOutcome is "ok" or the error the store call raised
get_customer_details(customer_id, names, storeOutcome) ==
    IF storeOutcome = "ok"
    THEN Ok(DictGet(StoreGetItem(customer_id, names), "Item"))
    ELSE CustomerServiceReraise(Exc(storeOutcome, "store"))

\* lines 28-40
get_recent_customer_interactions(customer_id, cnt, storeOutcome) ==
    IF storeOutcome = "ok"
    THEN Ok(DictGet(StoreQuery(customer_id, cnt, <<"date", "notes">>), "Items"))
    ELSE CustomerServiceReraise(Exc(storeOutcome, "store"))

\* lines 54-64
OverviewNoCoalesce(response) ==
    IF Truthy(response) THEN Subscript(response, "overview", "store") ELSE Ok(response)

OverviewOf(response) ==
    IF Truthy(response) THEN Subscript(response, "overview", "store") ELSE Ok(EmptyDict)

get_customer_overview(customer_id, storeOutcome) ==
    LET response == get_customer_details(customer_id, <<"overview">>, storeOutcome)
    IN  IF response.ok THEN OverviewOf(response.val)
        ELSE CustomerServiceReraise(response.exc)

\* lines 66-75
PreferencesCoalesce(response) ==
    IF Truthy(response) THEN Ok(response) ELSE Ok(EmptyDict)

PreferencesOf(response) == Ok(response)

get_customer_preferences(customer_id, storeOutcome) ==
    LET response == get_customer_details(customer_id,
                        <<"meetingType", "timeofDay", "dayOfWeek">>, storeOutcome)
    IN  IF response.ok THEN PreferencesOf(response.val)
        ELSE CustomerServiceReraise(response.exc)

\* ------------------------------------------------------- issue tracker
\* What the tracker can answer to GET {base}/search.
IssueJson(key, assignee) ==
    JObject(<< <<"key", JString(Str(key))>>,
               <<"fields", JObject(<< <<"summary", JString(Str("task"))>>,
                                      <<"status", JObject(<< <<"name", JString(Str("To Do"))>> >>)>>,
                                      <<"project", JObject(<< <<"name", JString(Str("Proj"))>> >>)>>,
                                      <<"duedate", JNull>>,
                                      <<"assignee", assignee>> >>)>> >>)

IssueKinds ==
    { IssueJson("K1", JObject(<< <<"displayName", JString(Str("Ana"))>> >>)),
      IssueJson("K2", JNull),
      JObject(<< <<"key", JString(Str("K3"))>> >>) }

IssueLists == UNION { [1..n -> IssueKinds] : n \in 0..MaxIssues }

SearchBodies ==
    { JsonText(JObject(<< <<"issues", JArray(xs)>> >>)) : xs \in IssueLists }
        \cup { JsonText(JObject(<< <<"errorMessages", JArray(<<>>)>> >>)),
               JsonText(JArray(<<>>)),
               BadText }

TransportError(type) == [t |-> "error", type |-> type]
TransportErrors == { TransportError(type) : type \in {"HTTPError", "URLError", "UnicodeDecodeError"} }

\* lines 119-130: one issue of the response as a task record
TaskOf(issue) ==
    LET key == Subscript(issue, "key", "tracker")
        summary == SubscriptPath(issue, <<"fields", "summary">>, "tracker")
        status == SubscriptPath(issue, <<"fields", "status", "name">>, "tracker")
        project == SubscriptPath(issue, <<"fields", "project", "name">>, "tracker")
        duedate == SubscriptPath(issue, <<"fields", "duedate">>, "tracker")
        assignee == SubscriptPath(issue, <<"fields", "assignee">>, "tracker")
        display == IF assignee.ok /\ Truthy(assignee.val)
                   THEN Subscript(assignee.val, "displayName", "tracker")
                   ELSE IF assignee.ok THEN Ok(Str("None")) ELSE assignee
    IN  IF ~key.ok THEN key
        ELSE IF ~summary.ok THEN summary
        ELSE IF ~status.ok THEN status
        ELSE IF ~project.ok THEN project
        ELSE IF ~duedate.ok THEN duedate
        ELSE IF ~display.ok THEN display
        ELSE Ok(DictV(<< <<"issueKey", key.val>>, <<"summary", summary.val>>,
                         <<"status", status.val>>, <<"project", project.val>>,
                         <<"duedate", duedate.val>>, <<"assignee", display.val>> >>))

\* lines 117-132: the loop over response_json["issues"]
RECURSIVE TasksOf(_, _)
TasksOf(issues, open_tasks) ==
    IF issues = <<>> THEN Ok(ListV(open_tasks))
    ELSE LET task == TaskOf(Head(issues))
         IN  IF task.ok THEN TasksOf(Tail(issues), Append(open_tasks, task.val))
             ELSE task

\* lines 114-132: the body of the try block once urlopen has answered
ParseSearchResponse(body) ==
    LET response_json == JsonLoads(body)
        issues == IF response_json.ok
                  THEN Subscript(response_json.val, "issues", "tracker")
                  ELSE response_json
    IN  IF ~issues.ok THEN issues
        ELSE IF issues.val.t # "list" THEN Raise(Exc("TypeError", "tracker"))
        ELSE TasksOf(issues.val.items, <<>>)

\* lines 133-141: every exception of the try block falls through to return []
SearchRaises(e) == Raise(e)

SearchSwallow(e) == Ok(EmptyList)

\* lines 112-141; outcome is a transport error or the body the tracker sent
get_open_jira_issues_result(outcome) ==
    IF outcome.t = "error" THEN SearchSwallow(Exc(outcome.type, "tracker"))
    ELSE LET r == ParseSearchResponse(outcome)
         IN  IF r.ok THEN r ELSE SearchSwallow(r.exc)

\* lines 151-169; outcome is the tracker's answer to the PUT
PutOk == [t |-> "ok"]
PutOutcomes == {PutOk} \cup TransportErrors

update_jira_issue_result(issue_key, weeks, outcome) ==
    IF outcome.t = "ok"
    THEN Ok(DictV(<< <<"issueKey", issue_key>>, <<"newTimeline", IntV(weeks)>> >>))
    ELSE Ok(EmptyDict)

\* urllib.request.Request(url, ...) raises ValueError inside the try block for
\* a url without a scheme, which f"{self.jira_url}/..." is when the secret
\* carried no SecretString
UrlUsable(jira_url) == jira_url.t = "str"

\* ------------------------------------------------------- the request
MatchedPaths == {"/listRecentInteractions", "/getPreferences", "/companyOverview",
                 "/getOpenJiraIssues", "/updateJiraIssue"}
Paths == MatchedPaths \cup {"/unknown", "/companyOverview/"}

Opt(k, v) == IF v = NoneVal THEN <<>> ELSE << <<k, v>> >>

QueryStrings ==
    { DictV(Opt("customerId", c) \o Opt("count", n) \o Opt("projectId", p) \o Opt("issueKey", k)) :
        c \in {NoneVal} \cup { Str(id) : id \in CustomerIds },
        n \in {NoneVal, NumStr(<<"2">>), NumStr(<<"-", "1">>), NumStr(<<"x">>)},
        p \in {NoneVal, Str("P1")},
        k \in {NoneVal, Str("K1")} }

Weeks == (-MaxWeeks..MaxWeeks) \cup {FarWeeks}

Absent == [t |-> "absent"]

Bodies ==
    {Absent, NoneVal, Str(""), BadText, JsonText(JArray(<<>>)), JsonText(JObject(<<>>)),
     JsonText(JObject(<< <<"timelineInWeeks", JNull>> >>)),
     JsonText(JObject(<< <<"timelineInWeeks", JString(NumStr(<<"1">>))>> >>)),
     JsonText(JObject(<< <<"timelineInWeeks", JString(Str("soon"))>> >>))}
        \cup { JsonText(JObject(<< <<"timelineInWeeks", JNumber(w)>> >>)) : w \in Weeks }

Events == [path : Paths, queryStringParameters : {NoneVal} \cup QueryStrings, body : Bodies]

\* what datetime.now() can read
NowSet ==
    { [date |-> [y |-> 2024, m |-> 2, d |-> 20], secs |-> 0],
      [date |-> [y |-> 2025, m |-> 12, d |-> 28], secs |-> 86399],
      [date |-> [y |-> 2100, m |-> 3, d |-> 3], secs |-> 43200] }

SecretNames == <<"JIRA_URL", "JIRA_API_KEY_ARN", "JIRA_USER_NAME">>

VARIABLES
    event,              \* the inbound request
    pc,                 \* position of the invocation
    api_path, customer_id, count, project_id, issue_key, timeline_in_weeks,
    jira,               \* the JiraInteraction object under construction
    calls,              \* downstream calls made so far, per collaborator
    outcome,            \* what the last downstream call answered
    now,                \* the clock reading update_jira_issue took
    sent,               \* the body of the PUT sent to the tracker
    result, response_code,
    response,           \* the returned envelope
    raised              \* the exception that escaped lambda_handler

vars == <<event, pc, api_path, customer_id, count, project_id, issue_key,
          timeline_in_weeks, jira, calls, outcome, now, sent, result,
          response_code, response, raised>>

parsed == <<api_path, customer_id, count, project_id, issue_key, timeline_in_weeks>>

NoOutcome == [t |-> "nooutcome"]
StoreOutcome(o) == [t |-> "store", o |-> o]

Init ==
    /\ event \in Events
    /\ pc = "parse"
    /\ api_path = NoneVal /\ customer_id = NoneVal /\ count = NoneVal
    /\ project_id = NoneVal /\ issue_key = NoneVal /\ timeline_in_weeks = NoneVal
    /\ jira = [step |-> 0, jira_url |-> NoneVal, jira_api_key_arn |-> NoneVal,
               jira_username |-> NoneVal, headers |-> FALSE]
    /\ calls = [secrets |-> 0, store |-> 0, http |-> 0, ops |-> 0]
    /\ outcome = NoOutcome
    /\ now = NoneVal
    /\ sent = NoneVal
    /\ result = NoneVal
    /\ response_code = 0
    /\ response = NoneVal
    /\ raised = NoExc

\* an exception leaves lambda_handler
Escape(e) ==
    /\ pc' = "raised"
    /\ raised' = e
    /\ UNCHANGED <<result, response_code, response>>

\* lines 194-203
ParsedBody(ev) ==
    IF ev.body # Absent /\ Truthy(ev.body) THEN JsonLoads(ev.body) ELSE Ok(EmptyDict)

Parse ==
    /\ pc = "parse"
    /\ LET qs == event.queryStringParameters
           body_dict == ParsedBody(event)
       IN  IF qs.t # "dict"
           THEN Escape(Exc("AttributeError", "router")) /\ UNCHANGED parsed
           ELSE IF ~body_dict.ok
           THEN Escape(body_dict.exc) /\ UNCHANGED parsed
           ELSE IF body_dict.val.t # "dict"
           THEN Escape(Exc("AttributeError", "router")) /\ UNCHANGED parsed
           ELSE /\ api_path' = Str(event.path)
                /\ customer_id' = DictGet(qs, "customerId")
                /\ count' = DictGet(qs, "count")
                /\ project_id' = DictGet(qs, "projectId")
                /\ issue_key' = DictGet(qs, "issueKey")
                /\ timeline_in_weeks' = DictGet(body_dict.val, "timelineInWeeks")
                /\ pc' = "construct"
                /\ UNCHANGED <<result, response_code, response, raised>>
    /\ UNCHANGED <<event, jira, calls, outcome, now, sent>>

\* a constructor that carries on without the secret it could not read
GetSecretLenient ==
    /\ pc = "construct"
    /\ jira.step < 3
    /\ calls' = [calls EXCEPT !.secrets = @ + 1]
    /\ \E answer \in {"SecretString", "SecretBinary", "fail"} :
        /\ outcome' = [t |-> "secret", o |-> answer, name |-> SecretNames[jira.step + 1]]
        /\ LET v == IF answer = "SecretString"
                    THEN Str(SecretNames[jira.step + 1]) ELSE NoneVal
           IN  jira' = CASE jira.step = 0 -> [jira EXCEPT !.step = 1, !.jira_url = v]
                         [] jira.step = 1 -> [jira EXCEPT !.step = 2, !.jira_api_key_arn = v]
                         [] OTHER -> [jira EXCEPT !.step = 3, !.jira_username = v]
    /\ UNCHANGED <<pc, result, response_code, response, raised>>
    /\ UNCHANGED <<event, parsed, now, sent>>

\* lines 172-187, called from lines 80-82: the lookup raises, or returns the
\* SecretString, or returns None when the secret carries no SecretString
GetSecret ==
    /\ pc = "construct"
    /\ jira.step < 3
    /\ calls' = [calls EXCEPT !.secrets = @ + 1]
    /\ \E answer \in {"SecretString", "SecretBinary", "fail"} :
        /\ outcome' = [t |-> "secret", o |-> answer, name |-> SecretNames[jira.step + 1]]
        /\ IF answer = "fail"
           THEN Escape(Exc("ClientError", "secrets")) /\ UNCHANGED jira
           ELSE LET v == IF answer = "SecretString"
                         THEN Str(SecretNames[jira.step + 1]) ELSE NoneVal
                IN  /\ jira' = CASE jira.step = 0 -> [jira EXCEPT !.step = 1, !.jira_url = v]
                                 [] jira.step = 1 -> [jira EXCEPT !.step = 2, !.jira_api_key_arn = v]
                                 [] OTHER -> [jira EXCEPT !.step = 3, !.jira_username = v]
                    /\ UNCHANGED <<pc, result, response_code, response, raised>>
    /\ UNCHANGED <<event, parsed, now, sent>>

\* lines 93-100, called from lines 83-91: a failure is logged and re-raised;
\* the lookup cannot succeed without a SecretId
GetJiraApiKey ==
    /\ pc = "construct"
    /\ jira.step = 3
    /\ calls' = [calls EXCEPT !.secrets = @ + 1]
    /\ \E answer \in {"SecretString", "fail"} :
        /\ answer = "SecretString" => jira.jira_api_key_arn # NoneVal
        /\ outcome' = [t |-> "secret", o |-> answer, name |-> "api key"]
        /\ IF answer = "fail"
           THEN Escape(Exc("ClientError", "secrets")) /\ UNCHANGED jira
           ELSE /\ jira' = [jira EXCEPT !.step = 4, !.headers = TRUE]
                /\ pc' = "dispatch"
                /\ UNCHANGED <<result, response_code, response, raised>>
    /\ UNCHANGED <<event, parsed, now, sent>>

\* ------------------------------------------------------- dispatch
\* lines 212-226: the branch taken for a path
RouteNoDefault(path) ==
    CASE path = Str("/listRecentInteractions") -> "list"
      [] path = Str("/getPreferences") -> "preferences"
      [] path = Str("/getOpenJiraIssues") -> "issues"
      [] path = Str("/updateJiraIssue") -> "update"
      [] OTHER -> "overview"

Route(path) ==
    CASE path = Str("/listRecentInteractions") -> "list"
      [] path = Str("/getPreferences") -> "preferences"
      [] path = Str("/companyOverview") -> "overview"
      [] path = Str("/getOpenJiraIssues") -> "issues"
      [] path = Str("/updateJiraIssue") -> "update"
      [] OTHER -> "unrecognized"

Enter(position) ==
    /\ pc' = position
    /\ calls' = [calls EXCEPT !.ops = @ + 1]
    /\ UNCHANGED <<result, response_code, response, raised>>

\* lines 213-215: count = int(count), then the repository method is entered
DispatchListRecentInteractions ==
    /\ pc = "dispatch" /\ Route(api_path) = "list"
    /\ LET n == PyInt(count)
       IN  IF n.ok
           THEN count' = IntV(n.val) /\ Enter("store_query")
           ELSE Escape(n.exc) /\ UNCHANGED <<count, calls>>
    /\ UNCHANGED <<event, api_path, customer_id, project_id, issue_key,
                   timeline_in_weeks, jira, outcome, now, sent>>

\* lines 216-217
DispatchGetPreferences ==
    /\ pc = "dispatch" /\ Route(api_path) = "preferences"
    /\ Enter("store_preferences")
    /\ UNCHANGED <<event, parsed, jira, outcome, now, sent>>

\* lines 218-219
DispatchCompanyOverview ==
    /\ pc = "dispatch" /\ Route(api_path) = "overview"
    /\ Enter("store_overview")
    /\ UNCHANGED <<event, parsed, jira, outcome, now, sent>>

\* lines 220-221
DispatchGetOpenJiraIssues ==
    /\ pc = "dispatch" /\ Route(api_path) = "issues"
    /\ Enter("http_get")
    /\ UNCHANGED <<event, parsed, jira, outcome, now, sent>>

\* lines 222-223 and 144-149: int(timeline_in_weeks), then update_jira_issue
\* reads the clock and computes the payload before its try block
DispatchUpdateJiraIssue ==
    /\ pc = "dispatch" /\ Route(api_path) = "update"
    /\ LET w == PyInt(timeline_in_weeks)
       IN  IF ~w.ok
           THEN Escape(w.exc) /\ UNCHANGED <<timeline_in_weeks, calls, now>>
           ELSE /\ timeline_in_weeks' = IntV(w.val)
                /\ calls' = [calls EXCEPT !.ops = @ + 1]
                /\ \E clock \in NowSet :
                    /\ now' = clock
                    /\ LET due == due_date(clock, w.val)
                       IN  IF due.ok
                           THEN /\ pc' = "http_put"
                                /\ UNCHANGED <<result, response_code, response, raised>>
                           ELSE Escape(due.exc)
    /\ UNCHANGED <<event, api_path, customer_id, count, project_id, issue_key,
                   jira, outcome, sent>>

\* lines 224-226
DispatchUnrecognized ==
    /\ pc = "dispatch" /\ Route(api_path) = "unrecognized"
    /\ response_code' = 404
    /\ result' = FStr("Unrecognized api path: ", api_path)
    /\ pc' = "wrap"
    /\ UNCHANGED <<event, parsed, jira, calls, outcome, now, sent, response, raised>>

\* ------------------------------------------------------- downstream calls
Return(r) ==
    IF r.ok
    THEN /\ result' = r.val
         /\ response_code' = 200
         /\ pc' = "wrap"
         /\ UNCHANGED <<response, raised>>
    ELSE Escape(r.exc)

StoreAnswers(rejected) == IF rejected THEN {"ClientError"} ELSE {"ok"} \cup StoreErrors

\* lines 28-40
QueryInteractions ==
    /\ pc = "store_query"
    /\ calls' = [calls EXCEPT !.store = @ + 1]
    /\ \E answer \in StoreAnswers(StoreRejectsQuery(customer_id, count.n)) :
        /\ outcome' = StoreOutcome(answer)
        /\ Return(get_recent_customer_interactions(customer_id, count.n, answer))
    /\ UNCHANGED <<event, parsed, jira, now, sent>>

\* a store call that is tried once more after it failed
GetPreferencesRetry ==
    /\ pc = "store_preferences"
    /\ calls' = [calls EXCEPT !.store = @ + 1]
    /\ \E answer \in StoreAnswers(StoreRejectsGet(customer_id)) :
        /\ outcome' = StoreOutcome(answer)
        /\ IF answer # "ok" /\ calls.store = 0
           THEN UNCHANGED <<pc, result, response_code, response, raised>>
           ELSE Return(get_customer_preferences(customer_id, answer))
    /\ UNCHANGED <<event, parsed, jira, now, sent>>

\* lines 66-75 with 43-52
GetPreferences ==
    /\ pc = "store_preferences"
    /\ calls' = [calls EXCEPT !.store = @ + 1]
    /\ \E answer \in StoreAnswers(StoreRejectsGet(customer_id)) :
        /\ outcome' = StoreOutcome(answer)
        /\ Return(get_customer_preferences(customer_id, answer))
    /\ UNCHANGED <<event, parsed, jira, now, sent>>

\* lines 54-64 with 43-52
GetOverview ==
    /\ pc = "store_overview"
    /\ calls' = [calls EXCEPT !.store = @ + 1]
    /\ \E answer \in StoreAnswers(StoreRejectsGet(customer_id)) :
        /\ outcome' = StoreOutcome(answer)
        /\ Return(get_customer_overview(customer_id, answer))
    /\ UNCHANGED <<event, parsed, jira, now, sent>>

\* lines 103-141: without a usable url the Request constructor raises inside
\* the try block and nothing is sent
GetOpenJiraIssues ==
    /\ pc = "http_get"
    /\ IF UrlUsable(jira.jira_url)
       THEN /\ calls' = [calls EXCEPT !.http = @ + 1]
            /\ \E answer \in TransportErrors \cup SearchBodies :
                /\ outcome' = [t |-> "tracker", o |-> answer]
                /\ Return(get_open_jira_issues_result(answer))
       ELSE /\ outcome' = [t |-> "tracker", o |-> TransportError("ValueError")]
            /\ Return(get_open_jira_issues_result(TransportError("ValueError")))
            /\ UNCHANGED calls
    /\ UNCHANGED <<event, parsed, jira, now, sent>>

\* lines 151-169
UpdateJiraIssue ==
    /\ pc = "http_put"
    /\ IF UrlUsable(jira.jira_url)
       THEN /\ calls' = [calls EXCEPT !.http = @ + 1]
            /\ sent' = update_payload(due_date(now, timeline_in_weeks.n).val)
            /\ \E answer \in PutOutcomes :
                /\ outcome' = [t |-> "tracker", o |-> answer]
                /\ Return(update_jira_issue_result(issue_key, timeline_in_weeks.n, answer))
       ELSE /\ outcome' = [t |-> "tracker", o |-> TransportError("ValueError")]
            /\ Return(update_jira_issue_result(issue_key, timeline_in_weeks.n,
                                               TransportError("ValueError")))
            /\ UNCHANGED <<calls, sent>>
    /\ UNCHANGED <<event, parsed, jira, now>>

\* lines 228-230
Wrap ==
    /\ pc = "wrap"
    /\ LET body == JsonDumps(DictV(<< <<"message", result>> >>))
       IN  IF body.ok
           THEN /\ response' = [statusCode |-> response_code, body |-> body.val]
                /\ pc' = "done"
                /\ UNCHANGED raised
           ELSE /\ pc' = "raised"
                /\ raised' = body.exc
                /\ UNCHANGED response
    /\ UNCHANGED <<event, parsed, jira, calls, outcome, now, sent, result, response_code>>

Next ==
    \/ Parse
    \/ GetSecret
    \/ GetJiraApiKey
    \/ DispatchListRecentInteractions
    \/ DispatchGetPreferences
    \/ DispatchCompanyOverview
    \/ DispatchGetOpenJiraIssues
    \/ DispatchUpdateJiraIssue
    \/ DispatchUnrecognized
    \/ QueryInteractions
    \/ GetPreferences
    \/ GetOverview
    \/ GetOpenJiraIssues
    \/ UpdateJiraIssue
    \/ Wrap

Spec == Init /\ [][Next]_vars

\* ======================================================= properties
Message == response.body.json.kv[1][2]
Returned == pc = "done"
TrackerFailed ==
    /\ outcome.t = "tracker"
    /\ \/ outcome.o.t \in {"error", "badtext"}
       \/ /\ outcome.o.t = "jsontext"
          /\ \/ outcome.o.json.t # "object"
             \/ outcome.o.json.kv[1][1] # "issues"
             \/ \E i \in 1..Len(outcome.o.json.kv[1][2].items) :
                    outcome.o.json.kv[1][2].items[i].kv[Len(outcome.o.json.kv[1][2].items[i].kv)][1] # "fields"
StoreFailed == outcome.t = "store" /\ outcome.o # "ok"

\* C1: a returned envelope has status 404 exactly when the path is none of the
\* five routes, and then carries "Unrecognized api path: {path}"; on each of
\* the five routes the status is 200, swallowed failure or not.
C1_StatusByPath ==
    Returned =>
        /\ response.statusCode = 404 <=> event.path \notin MatchedPaths
        /\ event.path \notin MatchedPaths =>
              Message = JString(FStr("Unrecognized api path: ", Str(event.path)))
        /\ event.path \in MatchedPaths => response.statusCode = 200

C1_Witness ==
    /\ Returned /\ event.path = "/getOpenJiraIssues" /\ TrackerFailed
    /\ response.statusCode = 200

\* C2: with the secrets resolved and the store answering, lambda_handler
\* returns an envelope for every combination of present and absent
\* parameters; only store and secret failures escape it.
OrdinaryRequest ==
    /\ event.queryStringParameters.t = "dict"
    /\ DictGet(event.queryStringParameters, "count") \in {NoneVal, NumStr(<<"2">>)}
    /\ event.body \in {Absent, JsonText(JObject(<<>>))}
          \cup { JsonText(JObject(<< <<"timelineInWeeks", JNumber(w)>> >>)) : w \in -MaxWeeks..MaxWeeks }
    /\ DictGet(event.queryStringParameters, "customerId") # Str("C4")

C2_RouterNeverRaises ==
    (pc = "raised" /\ OrdinaryRequest) => raised.origin \in {"secrets", "store"}

\* C3: get_open_jira_issues never raises; every tracker failure yields [] and
\* the envelope 200 with message []; a well-formed response yields one record
\* per issue, with assignee "None" for an unassigned issue.
C3_OpenIssuesNeverRaise ==
    (api_path = Str("/getOpenJiraIssues") /\ outcome.t = "tracker") =>
        /\ pc # "raised"
        /\ TrackerFailed =>
              /\ result = EmptyList
              /\ Returned => response.statusCode = 200 /\ Message = JArray(<<>>)
        /\ ~TrackerFailed =>
              LET issues == outcome.o.json.kv[1][2].items
              IN  /\ result.t = "list"
                  /\ Len(result.items) = Len(issues)
                  /\ \A i \in 1..Len(issues) :
                        /\ DictGet(result.items[i], "issueKey") = issues[i].kv[1][2].s
                        /\ DictGet(result.items[i], "assignee") = Str("None")
                              <=> issues[i].kv[2][2].kv[5][2] = JNull

C3_Witness ==
    /\ Returned /\ api_path = Str("/getOpenJiraIssues")
    /\ outcome.t = "tracker" /\ outcome.o = TransportError("URLError")
    /\ response.statusCode = 200 /\ Message = JArray(<<>>)

\* C4: update_jira_issue never raises, for any issue key and any integer
\* timeline; it returns {issueKey, newTimeline} exactly when the PUT
\* succeeded and {} otherwise.
C4_UpdateNeverRaises ==
    (api_path = Str("/updateJiraIssue") /\ calls.ops = 1) =>
        /\ pc # "raised"
        /\ outcome.t = "tracker" =>
              IF outcome.o = PutOk
              THEN result = DictV(<< <<"issueKey", issue_key>>,
                                     <<"newTimeline", timeline_in_weeks>> >>)
              ELSE result = EmptyDict

\* C5: a failed store call is re-raised unchanged out of lambda_handler and no
\* envelope is returned; a failed tracker call never escapes lambda_handler.
C5_FailureAsymmetry ==
    /\ StoreFailed =>
          /\ pc = "raised"
          /\ raised = Exc(outcome.o, "store")
          /\ response = NoneVal
    /\ TrackerFailed => pc # "raised" /\ raised = NoExc

C5_Witness ==
    /\ pc = "raised" /\ api_path = Str("/getPreferences")
    /\ outcome = StoreOutcome("EndpointConnectionError")
    /\ raised = Exc("EndpointConnectionError", "store")

\* C6: get_customer_overview returns the stored overview of a customer that
\* has one and {} for a customer without a record, for whom /companyOverview
\* returns 200 with message {}.
C6_Overview ==
    (api_path = Str("/companyOverview") /\ outcome = StoreOutcome("ok")) =>
        LET record == customer_table[customer_id.v]
        IN  /\ (record # NoneVal /\ DictHas(record, "overview")) =>
                  result = DictGet(record, "overview")
            /\ record = NoneVal =>
                  /\ result = EmptyDict
                  /\ pc # "raised"
                  /\ Returned => response.statusCode = 200 /\ Message = JObject(<<>>)

C6_Witness ==
    /\ Returned /\ api_path = Str("/companyOverview") /\ customer_id = Str("C2")
    /\ response.statusCode = 200 /\ Message = JObject(<<>>)

\* C7 as stated: every invocation that returns an envelope has invoked
\* exactly one downstream operation, with at most one store call and at most
\* one tracker call.
C7_ExactlyOneOperation ==
    /\ calls.store <= 1 /\ calls.http <= 1
    /\ Returned => calls.ops = 1

\* C7 as amended: an envelope for one of the five routes follows exactly one
\* downstream operation and the 404 envelope follows none; an invocation
\* makes at most one store call or one tracker call, never both, never a
\* second one: a failed store call ends it at once and a failed tracker call
\* becomes the empty result at once.
C7_AtMostOneOperation ==
    /\ calls.ops <= 1 /\ calls.store + calls.http <= 1
    /\ Returned => (calls.ops = 1 <=> event.path \in MatchedPaths)
    /\ Returned => (calls.ops = 0 <=> response.statusCode = 404)
    /\ StoreFailed => pc = "raised" /\ calls.store = 1
    /\ TrackerFailed => pc \in {"wrap", "done"} /\ result \in {EmptyList, EmptyDict}

C7_Witness ==
    /\ Returned /\ calls.ops = 1 /\ calls.http = 1 /\ calls.store = 0
    /\ TrackerFailed /\ result = EmptyDict

\* C8: the due date in the PUT body is the invocation's current date moved by
\* weeks*7 calendar days, printed YYYY-MM-DD.
NextDay(d) ==
    IF d.d < DaysInMonth(d.y, d.m) THEN [d EXCEPT !.d = @ + 1]
    ELSE IF d.m < 12 THEN [y |-> d.y, m |-> d.m + 1, d |-> 1]
    ELSE [y |-> d.y + 1, m |-> 1, d |-> 1]

PrevDay(d) ==
    IF d.d > 1 THEN [d EXCEPT !.d = @ - 1]
    ELSE IF d.m > 1 THEN [y |-> d.y, m |-> d.m - 1, d |-> DaysInMonth(d.y, d.m - 1)]
    ELSE [y |-> d.y - 1, m |-> 12, d |-> 31]

RECURSIVE StepDays(_, _)
StepDays(d, n) ==
    IF n = 0 THEN d
    ELSE IF n > 0 THEN StepDays(NextDay(d), n - 1)
    ELSE StepDays(PrevDay(d), n + 1)

C8_DueDate ==
    sent # NoneVal =>
        LET due == StepDays(now.date, 7 * timeline_in_weeks.n)
        IN  /\ sent.json.kv[1][2].kv[1][1] = "duedate"
            /\ sent.json.kv[1][2].kv[1][2] =
                  JString(NumStr(Pad(due.y, 4) \o <<"-">> \o Pad(due.m, 2) \o <<"-">> \o Pad(due.d, 2)))

C8_Witness ==
    /\ sent # NoneVal /\ timeline_in_weeks = IntV(-2)
    /\ now.date = [y |-> 2100, m |-> 3, d |-> 3]
    /\ sent.json.kv[1][2].kv[1][2].s.chars = <<"2", "1", "0", "0", "-", "0", "2", "-", "1", "7">>

\* C9: get_customer_preferences returns what the store yields for the
\* projection, and None (not {}) for a customer without a record, for whom
\* /getPreferences returns 200 with message null.
C9_Preferences ==
    (api_path = Str("/getPreferences") /\ outcome = StoreOutcome("ok")) =>
        LET record == customer_table[customer_id.v]
        IN  /\ record # NoneVal =>
                  result = DictV(Project(record.kv, <<"meetingType", "timeofDay", "dayOfWeek">>))
            /\ record = NoneVal =>
                  /\ result = NoneVal
                  /\ pc # "raised"
                  /\ Returned => response.statusCode = 200 /\ Message = JNull

C9_Witness ==
    /\ Returned /\ api_path = Str("/getPreferences") /\ customer_id = Str("C2")
    /\ response.statusCode = 200 /\ Message = JNull

\* C10: the tracker client is constructed on every request before dispatch,
\* and a failed secret lookup makes the handler raise on every path, with no
\* envelope, no store call and no tracker call.
C10_SecretFailureFatal ==
    /\ (outcome.t = "secret" /\ outcome.o = "fail") =>
          /\ pc = "raised" /\ raised = Exc("ClientError", "secrets")
          /\ response = NoneVal
          /\ calls.store = 0 /\ calls.http = 0 /\ calls.ops = 0
    /\ (calls.ops > 0 \/ response # NoneVal \/ result # NoneVal) => jira.step = 4

C10_Witness ==
    /\ pc = "raised" /\ event.path = "/unknown"
    /\ outcome = [t |-> "secret", o |-> "fail", name |-> "JIRA_USER_NAME"]
    /\ calls.secrets = 3

====
